---- MODULE Spec2Model ----
(***************************************************************************)
(* Model of aleph/search/__init__.py: the query-construction hierarchy     *)
(* (get_query / get_sort of every query kind) and the two result           *)
(* assemblers (MatchQueryResult, RecordsQueryResult).                      *)
(*                                                                         *)
(* Python values are modelled structurally: a dict is a record (or a       *)
(* function over its keys), a list is a sequence, None is the string       *)
(* "None", a possibly-None dict is either NoEntity or a record.            *)
(***************************************************************************)
EXTENDS Integers, Sequences, FiniteSets, TLC

VARIABLES
    parser,     \* the parsed request being served, NoParser between requests
    entity,     \* the reference entity dict held by the caller
    model,      \* followthemoney's schema registry
    query,      \* the dict returned by the last get_query call
    sort,       \* the list returned by the last get_sort call
    last,       \* arguments of the last call, as they were on entry
    matches,    \* rows of the match table, in query order
    index_ids,  \* ids of the entities present in the search index
    hits,       \* record hits returned by the search index, in rank order
    records,    \* the DocumentRecord table: id -> row
    page,       \* self.results as the parent constructor leaves it
    fetched,    \* what the batch fetch returned
    results,    \* self.results after __init__
    total       \* self.total after __init__

vars == <<parser, entity, model, query, sort, last,
          matches, index_ids, hits, records, page, fetched, results, total>>

query_vars == <<parser, entity, model, query, sort, last>>
result_vars == <<matches, index_ids, hits, records, page, fetched, results, total>>

(***************************************************************************)
(* Bounds                                                                  *)
(***************************************************************************)
MaxNames == 1
MaxFingerprints == 2
MaxEntityLen == 4
NumSchemata == 2
MaxRows == 2
MaxMatches == 3
MaxHits == 3

None == "None"

(***************************************************************************)
(* Input domains                                                           *)
(***************************************************************************)
SeqsUpTo(S, n) == UNION {[1..k -> S] : k \in 0..n}
Prefixes(xs, n) == {SubSeq(xs, 1, k) : k \in 0..n}

NameVals == {"Ann"}
FingerprintVals == <<"ann", "bob", "cy", "di">>
SchemaNames == <<"Person", "Land", "Company", "Asset", "Vessel">>
RowVals == <<2, 5, 7, 9>>

NoEntity == [none |-> TRUE]
NoParser == [none |-> TRUE]
NoQuery == [none |-> TRUE]
NoSort == <<>>
NoDocument == [none |-> TRUE]
NoCall == [kind |-> "none"]

\* entities as unpacked from the index: either key may be missing
LoadedEntities ==
    LET ns == SeqsUpTo(NameVals, MaxNames)
        fs == Prefixes(FingerprintVals, MaxFingerprints)
    IN  {[names |-> n, fingerprints |-> f] : n \in ns, f \in fs}
          \cup {[fingerprints |-> f] : f \in fs}
          \cup {[names |-> n] : n \in ns}

\* parser.getintlist('row'): the requested row indices, in request order
RowLists == Prefixes(RowVals, MaxRows)

Parsers ==
    [text : {None, "", "q"},
     authz : {"role1", "role2"},
     filters : {<<>>, <<[term |-> [collection_id |-> "c1"]]>>},
     sort : {None, "score", "bogus"},
     rows : RowLists,
     prefix : {"an"}]

Documents == {[id |-> "d1"], [id |-> "d2"]}
Sinces == {None, "t1", "t2"}

Registries ==
    {[i \in 1..NumSchemata |-> [name |-> SchemaNames[i], fuzzy |-> fz[i]]] :
        fz \in [1..NumSchemata -> BOOLEAN]}

(***************************************************************************)
(* Python helpers                                                          *)
(***************************************************************************)
\* dict.get(key, [])
Get(d, key) == IF key \in DOMAIN d THEN d[key] ELSE <<>>

\* truthiness of a str-or-None value
Truthy(s) == s # None /\ s # ""

RECURSIVE Flatten(_)
Flatten(xss) == IF xss = <<>> THEN <<>> ELSE Head(xss) \o Flatten(Tail(xss))

\* d[key] = value on a dict that may or may not have the key
SetKey(d, key, value) == (key :> value) @@ d

(***************************************************************************)
(* Class configuration                                                     *)
(***************************************************************************)
Documents_TEXT_FIELDS == <<"title^3", "summary", "text", "_all">>
Collections_TEXT_FIELDS == <<"label^3", "_all">>
Records_TEXT_FIELDS == <<"text">>
Default_TEXT_FIELDS == <<"_all">>

Records_SORT ==
    [default |-> <<[field |-> "index", order |-> "asc"]>>,
     score |-> <<[field |-> "_score"], [field |-> "index", order |-> "asc"]>>]

(***************************************************************************)
(* aleph.search.query: Query and AuthzQuery (imported, not in this file)   *)
(***************************************************************************)
Query_get_text_query(p, text_fields) ==
    IF Truthy(p.text)
    THEN <<[multi_match |-> [query |-> p.text, fields |-> text_fields]]>>
    ELSE <<>>

Query_get_query(p, text_fields) ==
    [bool |-> [should |-> <<>>,
               must |-> Query_get_text_query(p, text_fields),
               must_not |-> <<>>,
               filter |-> p.filters]]

authz_clause(p) == [authz |-> p.authz]

AuthzQuery_get_query(p, text_fields) ==
    LET q == Query_get_query(p, text_fields)
    IN  [bool |-> [q.bool EXCEPT !.filter = Append(@, authz_clause(p))]]

Query_get_sort(p, SORT) ==
    IF p.sort \in DOMAIN SORT THEN SORT[p.sort] ELSE SORT["default"]

(***************************************************************************)
(* DocumentsQuery, EntityDocumentsQuery, AlertDocumentsQuery               *)
(***************************************************************************)
DocumentsQuery_get_query(p) ==
    AuthzQuery_get_query(p, Documents_TEXT_FIELDS)

fingerprint_match(fp) ==
    [match |-> [fingerprints |-> [query |-> fp, fuzziness |-> 1,
                                  operator |-> "and", boost |-> 3]]]

phrase_match(field, name) ==
    [match_phrase |-> (field :> [query |-> name, slop |-> 3])]

PhraseFields == <<"title", "summary", "text">>

name_phrases(name) == [i \in DOMAIN PhraseFields |-> phrase_match(PhraseFields[i], name)]

\* variant: the fingerprints are not added to the phrase names
EntityDocumentsQuery_names_only(ent) == Get(ent, "names")

\* names = self.entity.get('names', []); names.extend(fingerprints)
EntityDocumentsQuery_names(ent) == Get(ent, "names") \o Get(ent, "fingerprints")

EntityDocumentsQuery_get_query(p, ent) ==
    LET q == DocumentsQuery_get_query(p)
        fingerprints == Get(ent, "fingerprints")
        names == EntityDocumentsQuery_names(ent)
        fuzzy == [i \in DOMAIN fingerprints |-> fingerprint_match(fingerprints[i])]
        phrases == Flatten([i \in DOMAIN names |-> name_phrases(names[i])])
    IN  IF ent = NoEntity
        THEN q
        ELSE [bool |-> SetKey([q.bool EXCEPT !.should = @ \o fuzzy \o phrases],
                              "minimum_should_match", 1)]

\* the entity dict as the call leaves it: extend() works on the list object
\* stored under 'names' when the key exists, on a fresh list otherwise
EntityDocumentsQuery_entity_after(ent) ==
    IF ent = NoEntity \/ "names" \notin DOMAIN ent
    THEN ent
    ELSE [ent EXCEPT !.names = EntityDocumentsQuery_names(ent)]

\* variant: inclusive lower bound
since_range_gte(since) == [range |-> [created_at |-> [gte |-> since]]]

since_range(since) == [range |-> [created_at |-> [gt |-> since]]]

\* super(EntityDocumentsQuery, self).get_query() resolves past
\* EntityDocumentsQuery in the MRO, i.e. to DocumentsQuery's get_query
AlertDocumentsQuery_get_query(p, ent, since) ==
    LET q == DocumentsQuery_get_query(p)
    IN  IF since # None
        THEN [bool |-> [q.bool EXCEPT !.filter = Append(@, since_range(since))]]
        ELSE q

(***************************************************************************)
(* EntitiesQuery, SimilarEntitiesQuery, SuggestEntitiesQuery               *)
(***************************************************************************)
EntitiesQuery_get_query(p) ==
    AuthzQuery_get_query(p, Default_TEXT_FIELDS)

\* aleph.index.xref.entity_query (imported): wires the reference entity
\* into a similarity clause of the query it is given
entity_query(ent, q) ==
    [bool |-> [q.bool EXCEPT !.must = Append(@, [similar_to |-> ent])]]

SimilarEntitiesQuery_get_query(p, ent) ==
    entity_query(ent, EntitiesQuery_get_query(p))

\* variant: the fuzzy test inverted
RECURSIVE fuzzy_names(_)
fuzzy_names(schemata) ==
    IF schemata = <<>> THEN <<>>
    ELSE IF Head(schemata).fuzzy
         THEN <<Head(schemata).name>> \o fuzzy_names(Tail(schemata))
         ELSE fuzzy_names(Tail(schemata))

\* [s.name for s in model if not s.fuzzy]
RECURSIVE non_fuzzy_names(_)
non_fuzzy_names(schemata) ==
    IF schemata = <<>> THEN <<>>
    ELSE IF ~Head(schemata).fuzzy
         THEN <<Head(schemata).name>> \o non_fuzzy_names(Tail(schemata))
         ELSE non_fuzzy_names(Tail(schemata))

SuggestEntitiesQuery_get_query(p, registry) ==
    LET q == EntitiesQuery_get_query(p)
    IN  [bool |-> [q.bool EXCEPT
            !.must = <<[match_phrase_prefix |-> [names |-> p.prefix]]>>,
            !.must_not = Append(@, [terms |-> [schema |-> non_fuzzy_names(registry)]])]]

(***************************************************************************)
(* CombinedQuery, CollectionsQuery                                         *)
(***************************************************************************)
CombinedQuery_get_query(p) ==
    AuthzQuery_get_query(p, Default_TEXT_FIELDS)

CollectionsQuery_get_query(p) ==
    AuthzQuery_get_query(p, Collections_TEXT_FIELDS)

(***************************************************************************)
(* RecordsQuery                                                            *)
(***************************************************************************)
document_term(document) == [term |-> [document_id |-> document.id]]

rows_boost(rows) ==
    [constant_score |-> [filter |-> [terms |-> [index |-> rows]], boost |-> 1000]]

\* variant: the requested rows restrict the query instead of boosting
RecordsQuery_get_query_restrict(p, document) ==
    LET q == Query_get_query(p, Records_TEXT_FIELDS)
        rows == p.rows
        filtered == [q.bool EXCEPT !.filter = Append(@, document_term(document))]
    IN  IF Len(rows) # 0
        THEN [bool |-> [filtered EXCEPT
                  !.filter = Append(@, [terms |-> [index |-> rows]])]]
        ELSE [bool |-> filtered]

RecordsQuery_get_query(p, document) ==
    LET q == Query_get_query(p, Records_TEXT_FIELDS)
        rows == p.rows
        filtered == [q.bool EXCEPT !.filter = Append(@, document_term(document))]
    IN  IF Len(rows) # 0
        THEN [bool |-> [filtered EXCEPT !.should = Append(@, rows_boost(rows))]]
        ELSE [bool |-> filtered]

\* variant: score-first only when rows and text are both present
RecordsQuery_get_sort_both(p) ==
    IF Len(p.rows) # 0 /\ Truthy(p.text)
    THEN Records_SORT["score"]
    ELSE Query_get_sort(p, Records_SORT)

RecordsQuery_get_sort(p) ==
    IF Len(p.rows) # 0 \/ Truthy(p.text)
    THEN Records_SORT["score"]
    ELSE Query_get_sort(p, Records_SORT)

(***************************************************************************)
(* MatchQueryResult                                                        *)
(***************************************************************************)
EntityIds == {"e1", "e2", "e3"}
Limits == 1..MaxMatches
Offsets == {0, 1}

Min(a, b) == IF a < b THEN a ELSE b

\* aleph.search.result.DatabaseQueryResult (imported): one page of the
\* query's rows, and the count of all of them
DatabaseQueryResult_results(rows, limit, offset) ==
    SubSeq(rows, offset + 1, Min(offset + limit, Len(rows)))

DatabaseQueryResult_total(rows) == Len(rows)

\* ids = set(); ids.add(match.match_id); ids.add(match.entity_id)
match_ids(rs) ==
    {rs[i].match_id : i \in DOMAIN rs} \cup {rs[i].entity_id : i \in DOMAIN rs}

\* es.mget: one doc per requested id, found or not
mget(ids, present) == [i \in DOMAIN ids |-> [id |-> ids[i], found |-> ids[i] \in present]]

\* aleph.index.util.unpack_result (imported): None for a doc that was not found
unpack_result(doc) == IF doc.found THEN [id |-> doc.id] ELSE None

\* the inner loop: attach the entity to every row that references it
attach_entity(rs, ent) ==
    [i \in DOMAIN rs |->
        LET m == rs[i]
            m1 == IF m.match_id = ent.id THEN SetKey(m, "match", ent) ELSE m
        IN  IF m.entity_id = ent.id THEN SetKey(m1, "entity", ent) ELSE m1]

RECURSIVE resolve(_, _)
resolve(docs, rs) ==
    IF docs = <<>> THEN rs
    ELSE IF ~Head(docs).found
         THEN resolve(Tail(docs), rs)
         ELSE resolve(Tail(docs), attach_entity(rs, unpack_result(Head(docs))))

hasattr(obj, name) == name \in DOMAIN obj

\* list.remove(x): drops the first element equal to x
RECURSIVE list_remove(_, _)
list_remove(xs, x) ==
    IF xs = <<>> THEN <<>>
    ELSE IF Head(xs) = x THEN Tail(xs)
         ELSE <<Head(xs)>> \o list_remove(Tail(xs), x)

\* variant: a row is dropped only when neither reference was resolved
is_unresolved_neither(m) == ~hasattr(m, "match") /\ ~hasattr(m, "entity")

is_unresolved(m) == ~hasattr(m, "match") \/ ~hasattr(m, "entity")

\* for match in list(self.results): ... self.results.remove(match)
RECURSIVE drop_unresolved(_, _)
drop_unresolved(copy, rs) ==
    IF copy = <<>> THEN rs
    ELSE IF is_unresolved(Head(copy))
         THEN drop_unresolved(Tail(copy), list_remove(rs, Head(copy)))
         ELSE drop_unresolved(Tail(copy), rs)

MatchQueryResult_results(base, docs) ==
    LET resolved == resolve(docs, base)
    IN  drop_unresolved(resolved, resolved)

Orderings(S) == {o \in [1..Cardinality(S) -> S] : {o[i] : i \in DOMAIN o} = S}

(***************************************************************************)
(* RecordsQueryResult                                                      *)
(***************************************************************************)
RecordIds == {"r1", "r2", "r3"}
RecordPayloads == {"v1", "v2"}

\* aleph.search.result.SearchQueryResult (imported): the hits, unpacked
SearchQueryResult_results(hs) == hs

\* DocumentRecord.find_records(ids): the stored rows whose id is in ids
find_records(ids, table) ==
    {table[r] : r \in {x \in DOMAIN table : \E i \in DOMAIN ids : ids[i] = x}}

\* variant: the text payload is not attached
attach_record_data_only(rs, record) ==
    [i \in DOMAIN rs |->
        IF rs[i].id = record.id
        THEN SetKey(rs[i], "data", record.data)
        ELSE rs[i]]

attach_record(rs, record) ==
    [i \in DOMAIN rs |->
        IF rs[i].id = record.id
        THEN SetKey(SetKey(rs[i], "data", record.data), "text", record.text)
        ELSE rs[i]]

RECURSIVE join_records(_, _)
join_records(recs, rs) ==
    IF recs = <<>> THEN rs
    ELSE join_records(Tail(recs), attach_record(rs, Head(recs)))

RecordsQueryResult_results(base, recs) == join_records(recs, base)

(***************************************************************************)
(* State machine: serving search requests                                  *)
(***************************************************************************)
Idle == last.kind = "none"

InitRequest ==
    /\ parser = NoParser
    /\ entity = NoEntity
    /\ query = NoQuery
    /\ sort = NoSort
    /\ last = NoCall

InitResults ==
    /\ matches = <<>>
    /\ index_ids = EntityIds
    /\ hits = <<>>
    /\ records = <<>>
    /\ page = <<>>
    /\ fetched = {}
    /\ results = <<>>
    /\ total = 0

DefaultRegistry ==
    [i \in 1..NumSchemata |-> [name |-> SchemaNames[i], fuzzy |-> i % 2 = 1]]

Init == InitRequest /\ InitResults /\ model \in Registries

InitAssembly == InitRequest /\ InitResults /\ model = DefaultRegistry

\* a request arrives and is parsed
ParseRequest ==
    /\ parser = NoParser
    /\ \E p \in Parsers : parser' = p
    /\ UNCHANGED <<entity, model, query, sort, last>>
    /\ UNCHANGED result_vars

\* the caller fetches the reference entity from the index
LoadEntity ==
    /\ parser = NoParser
    /\ \E e \in LoadedEntities \cup {NoEntity} : entity' = e
    /\ UNCHANGED <<parser, model, query, sort, last>>
    /\ UNCHANGED result_vars

Called(kind, since, document) ==
    [kind |-> kind, entity |-> entity, since |-> since, document |-> document]

Returns(kind, q, since, document) ==
    /\ parser # NoParser
    /\ query' = q
    /\ last' = Called(kind, since, document)
    /\ UNCHANGED <<parser, model, sort>>
    /\ UNCHANGED result_vars

DocumentsGetQuery ==
    /\ Returns("Documents", DocumentsQuery_get_query(parser), None, NoDocument)
    /\ UNCHANGED entity

EntityDocumentsGetQuery ==
    /\ Len(EntityDocumentsQuery_names(entity)) <= MaxEntityLen
    /\ Returns("EntityDocuments",
               EntityDocumentsQuery_get_query(parser, entity), None, NoDocument)
    /\ entity' = EntityDocumentsQuery_entity_after(entity)

AlertDocumentsGetQuery ==
    \E since \in Sinces :
        /\ Returns("AlertDocuments",
                   AlertDocumentsQuery_get_query(parser, entity, since),
                   since, NoDocument)
        /\ UNCHANGED entity

EntitiesGetQuery ==
    /\ Returns("Entities", EntitiesQuery_get_query(parser), None, NoDocument)
    /\ UNCHANGED entity

SimilarEntitiesGetQuery ==
    /\ entity # NoEntity
    /\ Returns("SimilarEntities",
               SimilarEntitiesQuery_get_query(parser, entity), None, NoDocument)
    /\ UNCHANGED entity

SuggestEntitiesGetQuery ==
    /\ Returns("SuggestEntities",
               SuggestEntitiesQuery_get_query(parser, model), None, NoDocument)
    /\ UNCHANGED entity

CombinedGetQuery ==
    /\ Returns("Combined", CombinedQuery_get_query(parser), None, NoDocument)
    /\ UNCHANGED entity

CollectionsGetQuery ==
    /\ Returns("Collections", CollectionsQuery_get_query(parser), None, NoDocument)
    /\ UNCHANGED entity

RecordsGetQuery ==
    \E document \in Documents :
        /\ Returns("Records", RecordsQuery_get_query(parser, document),
                   None, document)
        /\ UNCHANGED entity

RecordsGetSort ==
    /\ parser # NoParser
    /\ sort' = RecordsQuery_get_sort(parser)
    /\ UNCHANGED <<parser, entity, model, query, last>>
    /\ UNCHANGED result_vars

\* the response is produced; the request-scoped objects are discarded
Respond ==
    /\ parser # NoParser
    /\ parser' = NoParser
    /\ query' = NoQuery
    /\ sort' = NoSort
    /\ last' = NoCall
    /\ UNCHANGED <<entity, model>>
    /\ UNCHANGED result_vars

Next ==
    \/ ParseRequest
    \/ LoadEntity
    \/ DocumentsGetQuery
    \/ EntityDocumentsGetQuery
    \/ AlertDocumentsGetQuery
    \/ EntitiesGetQuery
    \/ SimilarEntitiesGetQuery
    \/ SuggestEntitiesGetQuery
    \/ CombinedGetQuery
    \/ CollectionsGetQuery
    \/ RecordsGetQuery
    \/ RecordsGetSort
    \/ Respond

Spec == Init /\ [][Next]_vars

(***************************************************************************)
(* State machine: assembling match results                                 *)
(***************************************************************************)
\* a cross-reference match is written to the match table
AddMatch ==
    /\ Idle
    /\ Len(matches) < MaxMatches
    /\ \E m \in EntityIds, e \in EntityIds :
         matches' = Append(matches,
                           [id |-> Len(matches) + 1, match_id |-> m, entity_id |-> e])
    /\ UNCHANGED <<index_ids, hits, records, page, fetched, results, total>>
    /\ UNCHANGED query_vars

\* an entity is removed from the search index
DeleteEntity ==
    /\ Idle
    /\ \E e \in index_ids : index_ids' = index_ids \ {e}
    /\ UNCHANGED <<matches, hits, records, page, fetched, results, total>>
    /\ UNCHANGED query_vars

MatchQueryResult_init ==
    /\ Idle
    /\ \E limit \in Limits, offset \in Offsets :
         LET base == DatabaseQueryResult_results(matches, limit, offset)
         IN  \E ids \in Orderings(match_ids(base)) :
                LET docs == mget(ids, index_ids)
                IN  /\ page' = base
                    /\ fetched' = {docs[i] : i \in DOMAIN docs}
                    /\ results' = MatchQueryResult_results(base, docs)
    /\ total' = DatabaseQueryResult_total(matches)
    /\ last' = [kind |-> "MatchQueryResult"]
    /\ UNCHANGED <<matches, index_ids, hits, records>>
    /\ UNCHANGED <<parser, entity, model, query, sort>>

Discard ==
    /\ ~Idle
    /\ page' = <<>>
    /\ fetched' = {}
    /\ results' = <<>>
    /\ total' = 0
    /\ last' = NoCall
    /\ UNCHANGED <<matches, index_ids, hits, records>>
    /\ UNCHANGED <<parser, entity, model, query, sort>>

NextMatch ==
    \/ AddMatch
    \/ DeleteEntity
    \/ MatchQueryResult_init
    \/ Discard

SpecMatch == InitAssembly /\ [][NextMatch]_vars

(***************************************************************************)
(* State machine: assembling record results                                *)
(***************************************************************************)
hit_ids(hs) == {hs[i].id : i \in DOMAIN hs}

\* the index returns one more hit for the page
AddHit ==
    /\ Idle
    /\ Len(hits) < MaxHits
    /\ \E r \in RecordIds \ hit_ids(hits) :
         hits' = Append(hits, [id |-> r, index |-> Len(hits) + 1])
    /\ UNCHANGED <<matches, index_ids, records, page, fetched, results, total>>
    /\ UNCHANGED query_vars

StoreRecord ==
    /\ Idle
    /\ \E r \in RecordIds, v \in RecordPayloads :
         records' = SetKey(records, r, [id |-> r, data |-> [cell |-> v], text |-> v])
    /\ UNCHANGED <<matches, index_ids, hits, page, fetched, results, total>>
    /\ UNCHANGED query_vars

DeleteRecord ==
    /\ Idle
    /\ \E r \in DOMAIN records :
         records' = [x \in DOMAIN records \ {r} |-> records[x]]
    /\ UNCHANGED <<matches, index_ids, hits, page, fetched, results, total>>
    /\ UNCHANGED query_vars

RecordsQueryResult_init ==
    /\ Idle
    /\ LET base == SearchQueryResult_results(hits)
           ids == [i \in DOMAIN base |-> base[i].id]
           found == find_records(ids, records)
       IN  \E recs \in Orderings(found) :
              /\ page' = base
              /\ fetched' = found
              /\ results' = RecordsQueryResult_results(base, recs)
    /\ total' = Len(hits)
    /\ last' = [kind |-> "RecordsQueryResult"]
    /\ UNCHANGED <<matches, index_ids, hits, records>>
    /\ UNCHANGED <<parser, entity, model, query, sort>>

NextRecords ==
    \/ AddHit
    \/ StoreRecord
    \/ DeleteRecord
    \/ RecordsQueryResult_init
    \/ Discard

SpecRecords == InitAssembly /\ [][NextRecords]_vars

(***************************************************************************)
(* Properties                                                              *)
(***************************************************************************)
Occurrences(xs, x) == Cardinality({i \in DOMAIN xs : xs[i] = x})
HasKey(clause, key) == key \in DOMAIN clause
WithKey(xs, key) == {i \in DOMAIN xs : HasKey(xs[i], key)}
Contains(xs, x) == \E i \in DOMAIN xs : xs[i] = x
Elems(xs) == {xs[i] : i \in DOMAIN xs}

QueryKinds ==
    {"Documents", "EntityDocuments", "AlertDocuments", "Entities",
     "SimilarEntities", "SuggestEntities", "Combined", "Collections", "Records"}

\* C1: the query returned by get_query of every query kind contains the
\* requester's authorization scope clause in bool.filter.
C1_AuthzInEveryFilter ==
    last.kind \in QueryKinds =>
        Contains(query.bool.filter, [authz |-> parser.authz])

\* C2: AlertDocumentsQuery built with since = None returns the same query
\* as EntityDocumentsQuery built with the same parser and entity.
C2_AlertWithoutSinceIsEntityQuery ==
    (last.kind = "AlertDocuments" /\ last.since = None) =>
        query = EntityDocumentsQuery_get_query(parser, last.entity)

\* C3: with a reference entity, EntityDocumentsQuery.get_query sets
\* minimum_should_match to 1, adds exactly one fuzzy 'fingerprints' match
\* (fuzziness 1, operator 'and', boost 3.0) per fingerprint and one
\* match_phrase with slop 3 on each of title, summary and text per name and
\* per fingerprint, and nothing else; without an entity it returns the
\* parent query, with no clause added and minimum_should_match not set.
C3_EntityMentionClauses ==
    last.kind = "EntityDocuments" =>
        LET parent == DocumentsQuery_get_query(parser)
            ent == last.entity
            fps == Get(ent, "fingerprints")
            nms == Get(ent, "names")
            should == query.bool.should
            Fuzzy(fp) == [match |-> [fingerprints |->
                            [query |-> fp, fuzziness |-> 1,
                             operator |-> "and", boost |-> 3]]]
            Phrase(f, n) == [match_phrase |-> (f :> [query |-> n, slop |-> 3])]
        IN  IF ent = NoEntity
            THEN /\ query = parent
                 /\ ~HasKey(query.bool, "minimum_should_match")
            ELSE /\ query.bool.minimum_should_match = 1
                 /\ \A fp \in Elems(fps) :
                       Occurrences(should, Fuzzy(fp)) = Occurrences(fps, fp)
                 /\ \A n \in Elems(nms) \cup Elems(fps) :
                       \A f \in {"title", "summary", "text"} :
                          Occurrences(should, Phrase(f, n))
                             = Occurrences(nms, n) + Occurrences(fps, n)
                 /\ Len(should) = Len(parent.bool.should) + Len(fps)
                                     + 3 * (Len(nms) + Len(fps))
                 /\ Cardinality(WithKey(should, "match")) = Len(fps)
                 /\ query.bool.must = parent.bool.must
                 /\ query.bool.filter = parent.bool.filter
                 /\ query.bool.must_not = parent.bool.must_not

C3_Witness ==
    /\ last.kind = "EntityDocuments"
    /\ last.entity # NoEntity
    /\ Len(Get(last.entity, "names")) >= 1
    /\ Len(Get(last.entity, "fingerprints")) = 2
    /\ Len(query.bool.should) = 2 + 3 * (Len(Get(last.entity, "names")) + 2)

\* C6: the query built by SuggestEntitiesQuery.get_query has in must_not a
\* terms clause on 'schema' listing exactly the names of the schemata that
\* are not fuzzy-matchable.
C6_SuggestExcludesNonFuzzy ==
    last.kind = "SuggestEntities" =>
        LET must_not == query.bool.must_not
            NonFuzzy == {model[i].name : i \in {j \in DOMAIN model : ~model[j].fuzzy}}
            IsFuzzy == {model[i].name : i \in {j \in DOMAIN model : model[j].fuzzy}}
        IN  /\ Cardinality(WithKey(must_not, "terms")) = 1
            /\ \A i \in WithKey(must_not, "terms") :
                  /\ DOMAIN must_not[i].terms = {"schema"}
                  /\ Elems(must_not[i].terms.schema) = NonFuzzy
                  /\ Elems(must_not[i].terms.schema) \cap IsFuzzy = {}
                  /\ Len(must_not[i].terms.schema) = Cardinality(NonFuzzy)

C6_Witness ==
    /\ last.kind = "SuggestEntities"
    /\ \E i \in DOMAIN model : model[i].fuzzy
    /\ \E i \in DOMAIN model : ~model[i].fuzzy
    /\ Len(query.bool.must_not) = 1

MentionsIndex(clause) ==
    \/ HasKey(clause, "constant_score")
    \/ HasKey(clause, "terms") /\ HasKey(clause.terms, "index")
    \/ HasKey(clause, "term") /\ HasKey(clause.term, "index")

\* C7: the query built by RecordsQuery.get_query has the term filter
\* document_id = D.id in filter; with a non-empty row list it has exactly one
\* constant_score should clause, boost 1000, whose terms filter on 'index' is
\* the requested rows; with an empty row list it has none; the rows are
\* never added to filter, must or must_not.
C7_RecordsQueryRows ==
    last.kind = "Records" =>
        LET b == query.bool
            rows == parser.rows
        IN  /\ Contains(b.filter, [term |-> [document_id |-> last.document.id]])
            /\ IF Len(rows) > 0
               THEN /\ Cardinality(WithKey(b.should, "constant_score")) = 1
                    /\ Contains(b.should,
                          [constant_score |->
                              [filter |-> [terms |-> [index |-> rows]],
                               boost |-> 1000]])
               ELSE WithKey(b.should, "constant_score") = {}
            /\ \A i \in DOMAIN b.filter : ~MentionsIndex(b.filter[i])
            /\ \A i \in DOMAIN b.must : ~MentionsIndex(b.must[i])
            /\ \A i \in DOMAIN b.must_not : ~MentionsIndex(b.must_not[i])

C7_Witness ==
    /\ last.kind = "Records"
    /\ parser.rows = <<2, 5>>
    /\ Len(query.bool.should) = 1

\* C8: AlertDocumentsQuery.get_query with since = T appends to filter exactly
\* one range clause on created_at with the strict bound gt = T, and with
\* since = None appends none; must, should and must_not are those of the
\* query built without since.
C8_AlertSinceRange ==
    last.kind = "AlertDocuments" =>
        LET b == query.bool
            plain == AlertDocumentsQuery_get_query(parser, last.entity, None).bool
        IN  /\ b.must = plain.must
            /\ b.should = plain.should
            /\ b.must_not = plain.must_not
            /\ WithKey(plain.filter, "range") = {}
            /\ IF last.since # None
               THEN /\ b.filter = Append(plain.filter,
                           [range |-> [created_at |-> [gt |-> last.since]]])
                    /\ Cardinality(WithKey(b.filter, "range")) = 1
               ELSE b.filter = plain.filter

C8_Witness ==
    /\ last.kind = "AlertDocuments"
    /\ last.since = "t2"
    /\ last.entity # NoEntity
    /\ Cardinality(WithKey(query.bool.filter, "range")) = 1

ScoreFirst == <<[field |-> "_score"], [field |-> "index", order |-> "asc"]>>
IndexOnly == <<[field |-> "index", order |-> "asc"]>>

\* C9: RecordsQuery.get_sort returns the score-first preset whenever the row
\* list is non-empty or the request has free text, whatever preset the
\* request names; otherwise it returns the requested preset, or 'default'
\* (index asc) when the name is absent or unknown.
C9_RecordsSort ==
    sort # NoSort =>
        IF Len(parser.rows) > 0 \/ parser.text \notin {None, ""}
        THEN sort = ScoreFirst
        ELSE sort = (IF parser.sort = "score" THEN ScoreFirst ELSE IndexOnly)

C9_Witness ==
    /\ sort = ScoreFirst
    /\ parser.sort = "bogus"
    /\ Len(parser.rows) > 0
    /\ parser.text = None

\* C10: EntityDocumentsQuery.get_query leaves the supplied reference entity
\* unchanged.
C10_EntityUnchanged ==
    last.kind = "EntityDocuments" => entity = last.entity

(***************************************************************************)
(* Properties of the result assemblers                                     *)
(***************************************************************************)
FoundIds == {d.id : d \in {x \in fetched : x.found}}

BothResolved(m) == m.match_id \in FoundIds /\ m.entity_id \in FoundIds

\* C4: after MatchQueryResult is constructed the result list holds exactly
\* the rows whose match_id and entity_id were both resolved to a fetched
\* entity, in their original relative order and with identifiers unchanged;
\* a row with only one reference resolved is removed; the reported total is
\* not adjusted for the removed rows.
C4_MatchRowsBothResolved ==
    last.kind = "MatchQueryResult" =>
        LET kept == SelectSeq(page, BothResolved)
        IN  /\ Len(results) = Len(kept)
            /\ \A i \in DOMAIN results :
                  /\ results[i].id = kept[i].id
                  /\ results[i].match_id = kept[i].match_id
                  /\ results[i].entity_id = kept[i].entity_id
                  /\ results[i].match = [id |-> kept[i].match_id]
                  /\ results[i].entity = [id |-> kept[i].entity_id]
            /\ total = Len(matches)

C4_Witness ==
    /\ last.kind = "MatchQueryResult"
    /\ Len(page) = 3
    /\ Len(results) = 2
    /\ page[2].match_id \in FoundIds
    /\ page[2].entity_id \notin FoundIds
    /\ results[2].id = page[3].id
    /\ total = 3

\* C5: after RecordsQueryResult is constructed the result list has the same
\* rows in the same order as the hits; a row whose id the store returned
\* carries that record's data and text, a row whose id is absent from the
\* store is kept with no data and no text attached.
C5_RecordRowsJoined ==
    last.kind = "RecordsQueryResult" =>
        /\ Len(results) = Len(hits)
        /\ \A i \in DOMAIN results :
              /\ results[i].id = hits[i].id
              /\ results[i].index = hits[i].index
              /\ IF results[i].id \in DOMAIN records
                 THEN /\ HasKey(results[i], "data")
                      /\ HasKey(results[i], "text")
                      /\ results[i].data = records[results[i].id].data
                      /\ results[i].text = records[results[i].id].text
                 ELSE /\ ~HasKey(results[i], "data")
                      /\ ~HasKey(results[i], "text")

C5_Witness ==
    /\ last.kind = "RecordsQueryResult"
    /\ Len(hits) = 2
    /\ hits[1].id \in DOMAIN records
    /\ hits[2].id \notin DOMAIN records
    /\ HasKey(results[1], "data")
    /\ ~HasKey(results[2], "data")

====
